---------------------------- MODULE Spec2Model ----------------------------
(***************************************************************************)
(* Model of the RISC-V PLIC driver, cpu/riscv_common/periph/plic.c.        *)
(*                                                                         *)
(* The driver's state is the controller's memory-mapped registers (the     *)
(* per-hart enable words, the priority array, the per-hart threshold and   *)
(* claim/complete registers) and the static callback table _ext_isrs.      *)
(* Every driver function is one action, executed by the hart h whose       *)
(* mhartid the function reads.  plic_isr_handler is split at its three     *)
(* register/table accesses (claim read, callback call, complete write) so  *)
(* that harts interleave between them.                                     *)
(***************************************************************************)
EXTENDS Naturals, FiniteSets, Sequences, TLC

(***************************************************************************)
(* Platform parameters and bounds of the model.                            *)
(***************************************************************************)
\* PLIC_NUM_INTERRUPTS of the platform header: ids 1..PLIC_NUM_INTERRUPTS
\* pass the asserts and are walked by plic_init.
PLIC_NUM_INTERRUPTS == 2

\* Largest priority / threshold value an argument takes.
MaxPrio == 2

\* Number of API calls a behaviour of SpecCfg makes.
MaxCalls == 2

N == PLIC_NUM_INTERRUPTS

\* The harts (values of mhartid).
Harts == {0, 1}

\* Index of the 32-bit enable words of one hart that the model keeps.
EnableWords == {0, 1}

\* The callbacks an application registers, the null pointer a zeroed table
\* slot holds, and a word of memory that is no callback of the application.
Handlers == {"cbA", "cbB"}

NULL == "NULL"

Junk == "junk"

\* The marker of a source no hart holds in service: no value of mhartid.
NoHart == Cardinality(Harts)

(***************************************************************************)
(* 32-bit register words.  A word is the set of the positions of its bits  *)
(* that are 1, so that all 32 bits are kept.                               *)
(***************************************************************************)
Bits32 == 0..31

\* The word 0xffffffff and the word 0.
AllOnes == Bits32

Zero32 == {}

\* a | b
BitOr(a, b) == a \cup b

\* a & b
BitAnd(a, b) == a \cap b

\* ~a
BitNot(a) == Bits32 \ a

\* 1 << (irq & 0x1f)
IrqMask(i) == {i % 32}

\* Bit b of word w (0 or 1).
BitOf(w, b) == IF b \in w THEN 1 ELSE 0

(***************************************************************************)
(* State.                                                                  *)
(***************************************************************************)
VARIABLES
    enable,      \* enable[h][w]: 32-bit enable word w of hart h
    priority,    \* priority[id]: the priority register of source id
    threshold,   \* threshold[h]: the threshold register of hart h
    ext_isrs,    \* _ext_isrs: the callback table, PLIC_NUM_INTERRUPTS slots
    past_end,    \* the word of memory that follows _ext_isrs
    pending,     \* sources whose gateway has an interrupt pending
    in_service,  \* in_service[id]: the hart that claimed id, or NoHart
    pc,          \* pc[h]: where hart h is
    irq,         \* irq[h]: the local irq of plic_isr_handler on hart h
    cb_run,      \* cb_run[h]: what the handler's call on hart h ran, this run
    last,        \* the last API call: [op, hart, irq, val]
    prev,        \* the registers and the table as they were before that call
    ncalls,      \* number of API calls made
    asked,       \* the priority last asked for per source, the threshold
                 \* last asked for per hart
    rmw,         \* rmw[c]: the enable/disable call in progress in context c
    init_at,     \* init_at[h]: the register access plic_init on hart h makes
                 \* next (1..InitSteps), 0 when h is not in plic_init
    armed        \* armed[h]: whether plic_init has run on hart h, and the
                 \* sources enable has enabled on h since it last did

vars == <<enable, priority, threshold, ext_isrs, past_end,
          pending, in_service, pc, irq, cb_run, last, prev, ncalls, asked,
          rmw, init_at, armed>>

Sources == 1..N

\* The register accesses of one plic_init: for each id a store to the
\* caller's enable word and a store to the priority of id, then the store
\* to the caller's threshold.
InitSteps == 2 * N + 1

\* The access plic_init on hart h makes next: the first when h enters it.
InitStep(h) == IF init_at[h] = 0 THEN 1 ELSE init_at[h]

\* Hart h runs its thread, outside the handler and outside plic_init.
Thread(h) == pc[h] = "idle" /\ init_at[h] = 0

\* What the API calls change, as one record.
Snapshot ==
    [enable |-> enable, priority |-> priority, threshold |-> threshold,
     ext_isrs |-> ext_isrs, past_end |-> past_end]

NoCall == [op |-> "none", hart |-> NoHart, irq |-> 0, val |-> 0]

\* The contexts of one hart that call enable and disable: the thread, and
\* an interrupt service routine that preempts it.
Contexts == {"thread", "isr"}

\* No enable/disable call is in progress in any context.
RmwIdle ==
    [c \in Contexts |->
        [at |-> "out", op |-> "none", hart |-> NoHart, irq |-> 0,
         reg |-> Zero32]]

\* plic_init has not run on the hart.
Dirty == [init |-> FALSE, ids |-> {}]

\* The history of a system on which nothing has been called yet.
NoHistory ==
    /\ last = NoCall
    /\ ncalls = 0
    /\ rmw = RmwIdle
    /\ init_at = [h \in Harts |-> 0]
    /\ armed = [h \in Harts |-> Dirty]

\* What the callers have asked for after the API call op(i, v) on hart h:
\* an accepted set_priority asks for a priority of i, set_threshold for a
\* threshold of h.
Asked(op, h, i, v) ==
    CASE op = "set_priority" /\ i \in Sources ->
             [asked EXCEPT !.prio[i] = v]
      [] op = "set_threshold" ->
             [asked EXCEPT !.thr[h] = v]
      [] OTHER -> asked

\* What the callers have asked for after access k of plic_init on hart h:
\* its store to a priority asks for priority 0 of that source, its store to
\* the threshold for threshold 0 of h.
AskedInit(h, k) ==
    CASE k <= 2 * N /\ k % 2 = 0 -> [asked EXCEPT !.prio[k \div 2] = 0]
      [] k = InitSteps -> [asked EXCEPT !.thr[h] = 0]
      [] OTHER -> asked

\* The harness records an access of plic_init on hart h.  The call is
\* counted and the registers are kept when it starts; it is recorded as
\* "init" when it returns if no other call was recorded since it started,
\* with val 1 if the call recorded before it was a plic_init of h that
\* returned so; it is recorded as "init_cut" from the first access that
\* follows another call, and the registers kept are then of no use and are
\* let go.
NoteInit(h) ==
    LET k    == InitStep(h)
        mine == last.op = "init_run" /\ last.hart = h
    IN  /\ IF k = 1
           THEN /\ ncalls < MaxCalls
                /\ ncalls' = ncalls + 1
                /\ prev' = Snapshot
                /\ last' = [op |-> "init_run", hart |-> h, irq |-> 0,
                            val |-> IF last.op = "init" /\ last.hart = h
                                    THEN 1 ELSE 0]
           ELSE /\ UNCHANGED ncalls
                /\ prev' = IF mine THEN prev ELSE Snapshot'
                /\ last' = [op |-> IF ~mine THEN "init_cut"
                                   ELSE IF k = InitSteps THEN "init"
                                   ELSE "init_run",
                            hart |-> h, irq |-> 0,
                            val |-> IF mine THEN last.val ELSE 0]
        /\ asked' = AskedInit(h, k)
        /\ UNCHANGED <<rmw, armed>>

\* The harness records an API call, and counts it.
Note(op, h, i, v) ==
    /\ ncalls < MaxCalls
    /\ ncalls' = ncalls + 1
    /\ last' = [op |-> op, hart |-> h, irq |-> i, val |-> v]
    /\ prev' = Snapshot
    /\ asked' = Asked(op, h, i, v)
    /\ UNCHANGED <<rmw, init_at, armed>>

\* The harness records only what an API call asked for.
Track(op, h, i, v) ==
    /\ asked' = Asked(op, h, i, v)
    /\ UNCHANGED <<last, prev, ncalls, rmw, init_at, armed>>

\* The harness records who made an API call and what it asked for.
Caller(op, h, i, v) ==
    /\ last' = [op |-> op, hart |-> h, irq |-> 0, val |-> 0]
    /\ asked' = Asked(op, h, i, v)
    /\ UNCHANGED <<prev, ncalls, rmw, init_at, armed>>

\* The harness records where the thread was when the service routine's
\* enable/disable wrote its register.
Cut ==
    /\ last' = [op |-> "isr_write", hart |-> rmw["isr"].hart,
                irq |-> rmw["isr"].irq, val |-> rmw["thread"].at]
    /\ UNCHANGED <<prev, ncalls, asked, init_at, armed>>

\* The harness records nothing about a step of an enable/disable call.
Calm == UNCHANGED <<last, prev, ncalls, asked, init_at, armed>>

\* The sources enabled by enable on each hart since plic_init last ran
\* on it, after the API call op(i) on hart h.
Armed(op, h, i) ==
    CASE op = "enable" /\ armed[h].init /\ i \in Sources ->
             [armed EXCEPT ![h].ids = @ \cup {i}]
      [] OTHER -> armed

\* The harness records what an API call asked for and what it armed.
Arm(op, h, i, v) ==
    /\ armed' = Armed(op, h, i)
    /\ asked' = Asked(op, h, i, v)
    /\ UNCHANGED <<last, prev, ncalls, rmw, init_at>>

\* The harness records an access of plic_init on hart h: what it asked
\* for, and, when the call returns, that h has nothing armed.
ArmInit(h) ==
    /\ asked' = AskedInit(h, InitStep(h))
    /\ armed' = IF InitStep(h) = InitSteps
                THEN [armed EXCEPT ![h] = [init |-> TRUE, ids |-> {}]]
                ELSE armed
    /\ UNCHANGED <<last, prev, ncalls, rmw>>

\* The harness records nothing: the step is no API call.
Quiet == UNCHANGED <<last, prev, ncalls, asked, rmw, init_at, armed>>

(***************************************************************************)
(* Address computation.                                                    *)
(***************************************************************************)
\* The enable word of hart hart_id that holds the bit of irq.
_get_irq_reg(hart_id, i) == <<hart_id, i \div 32>>

\* The threshold register of hart hart_id.
_get_threshold_addr(hart_id) == hart_id

\* The claim/complete register of hart hart_id.
_get_claim_complete_addr(hart_id) == hart_id

(***************************************************************************)
(* Register writes of the API, as functions of the register files.         *)
(***************************************************************************)
\* An enable that addresses the enable words of hart 0 whatever hart runs it.
EnableOnHartZero(en, h, i) ==
    LET r == _get_irq_reg(0, i)
    IN  [en EXCEPT ![r[1]][r[2]] = BitOr(@, IrqMask(i))]

\* *irq_reg |= 1 << (irq & 0x1f)
EnableIn(en, h, i) ==
    LET r == _get_irq_reg(h, i)
    IN  [en EXCEPT ![r[1]][r[2]] = BitOr(@, IrqMask(i))]

\* A disable that keeps only the bit it should clear: *irq_reg &= 1 << bit.
DisableKeepsOnlyBit(en, h, i) ==
    LET r == _get_irq_reg(h, i)
    IN  [en EXCEPT ![r[1]][r[2]] = BitAnd(@, IrqMask(i))]

\* *irq_reg &= ~(1 << (irq & 0x1f))
DisableIn(en, h, i) ==
    LET r == _get_irq_reg(h, i)
    IN  [en EXCEPT ![r[1]][r[2]] = BitAnd(@, BitNot(IrqMask(i)))]

\* A threshold write that addresses the register of hart 0 whatever hart
\* runs it.
ThresholdOnHartZero(th, h, t) == [th EXCEPT ![_get_threshold_addr(0)] = t]

\* *plic_threshold = threshold
ThresholdIn(th, h, t) == [th EXCEPT ![_get_threshold_addr(h)] = t]

\* *(&PLIC_REG(PLIC_PRIORITY_OFFSET) + irq) = priority
PriorityIn(pr, i, p) == [pr EXCEPT ![i] = p]

\* The asserts without the one on id 0.
AssertsWithoutZeroCheck(i) == i <= PLIC_NUM_INTERRUPTS

\* The two asserts of plic_set_priority and plic_set_isr_cb.
AssertsPass(i) == i <= PLIC_NUM_INTERRUPTS /\ i # 0

\* A failed assert: the hart panics and runs nothing more.
Panic(h) == pc' = [pc EXCEPT ![h] = "panic"]

(***************************************************************************)
(* The API, called on hart h in normal program context.                    *)
(***************************************************************************)
plic_enable_interrupt(h, i) ==
    /\ Thread(h)
    /\ enable' = EnableIn(enable, h, i)
    /\ UNCHANGED <<priority, threshold, ext_isrs, past_end,
                   pending, in_service, pc, irq, cb_run>>

plic_disable_interrupt(h, i) ==
    /\ Thread(h)
    /\ enable' = DisableIn(enable, h, i)
    /\ UNCHANGED <<priority, threshold, ext_isrs, past_end,
                   pending, in_service, pc, irq, cb_run>>

plic_set_threshold(h, t) ==
    /\ Thread(h)
    /\ threshold' = ThresholdIn(threshold, h, t)
    /\ UNCHANGED <<enable, priority, ext_isrs, past_end,
                   pending, in_service, pc, irq, cb_run>>

plic_set_priority(h, i, p) ==
    /\ Thread(h)
    /\ IF AssertsPass(i)
       THEN /\ priority' = PriorityIn(priority, i, p)
            /\ UNCHANGED pc
       ELSE /\ Panic(h)
            /\ UNCHANGED priority
    /\ UNCHANGED <<enable, threshold, ext_isrs, past_end,
                   pending, in_service, irq, cb_run>>

\* _ext_isrs[irq] = cb on the memory mem = [tbl, past].  The table has
\* PLIC_NUM_INTERRUPTS slots, 0..N-1: a store at an index outside it lands
\* on the memory that follows the table.
StoreCb(mem, i, cb) ==
    IF i \in DOMAIN mem.tbl
    THEN [mem EXCEPT !.tbl[i] = cb]
    ELSE [mem EXCEPT !.past = cb]

plic_set_isr_cb(h, i, cb) ==
    /\ Thread(h)
    /\ IF AssertsPass(i)
       THEN /\ LET mem == StoreCb([tbl |-> ext_isrs, past |-> past_end], i, cb)
               IN  /\ ext_isrs' = mem.tbl
                   /\ past_end' = mem.past
            /\ UNCHANGED pc
       ELSE /\ Panic(h)
            /\ UNCHANGED <<ext_isrs, past_end>>
    /\ UNCHANGED <<enable, priority, threshold,
                   pending, in_service, irq, cb_run>>

\* Access k of a plic_init whose loop stops at i < PLIC_NUM_INTERRUPTS: the
\* two stores for the last id are not made.
InitAccessStopsEarly(regs, h, k) ==
    IF k <= 2 * (N - 1) /\ k % 2 = 1
    THEN [regs EXCEPT !.enable = DisableIn(@, h, (k + 1) \div 2)]
    ELSE IF k <= 2 * (N - 1)
    THEN [regs EXCEPT !.priority = PriorityIn(@, k \div 2, 0)]
    ELSE IF k = InitSteps
    THEN [regs EXCEPT !.threshold = ThresholdIn(@, h, 0)]
    ELSE regs

\* Access k of a plic_init whose loop flips the enable bit.
InitAccessToggles(regs, h, k) ==
    IF k <= 2 * N /\ k % 2 = 1
    THEN LET i == (k + 1) \div 2
         IN  [regs EXCEPT !.enable =
                 IF BitOf(@[h][i \div 32], i % 32) = 1
                 THEN DisableIn(@, h, i)
                 ELSE EnableIn(@, h, i)]
    ELSE IF k <= 2 * N
    THEN [regs EXCEPT !.priority = PriorityIn(@, k \div 2, 0)]
    ELSE [regs EXCEPT !.threshold = ThresholdIn(@, h, 0)]

\* Access k of a plic_init without the plic_set_priority(i, 0).
InitAccessKeepsPriority(regs, h, k) ==
    IF k <= 2 * N /\ k % 2 = 1
    THEN [regs EXCEPT !.enable = DisableIn(@, h, (k + 1) \div 2)]
    ELSE IF k <= 2 * N
    THEN regs
    ELSE [regs EXCEPT !.threshold = ThresholdIn(@, h, 0)]

\* Access k of plic_init on hart h, on the registers regs = [enable,
\* priority, threshold].  Pass i of the loop makes accesses 2i - 1,
\* plic_disable_interrupt(i), and 2i, plic_set_priority(i, 0), whose asserts
\* hold for every i of the loop; the last access is plic_set_threshold(0).
InitAccess(regs, h, k) ==
    IF k <= 2 * N /\ k % 2 = 1
    THEN [regs EXCEPT !.enable = DisableIn(@, h, (k + 1) \div 2)]
    ELSE IF k <= 2 * N
    THEN [regs EXCEPT !.priority = PriorityIn(@, k \div 2, 0)]
    ELSE [regs EXCEPT !.threshold = ThresholdIn(@, h, 0)]

\* A plic_init that zeroes the callback table before it returns.
InitClearsTable(h) ==
    /\ pc[h] = "idle"
    /\ LET regs == InitAccess([enable |-> enable, priority |-> priority,
                               threshold |-> threshold], h, InitStep(h))
       IN  /\ enable' = regs.enable
           /\ priority' = regs.priority
           /\ threshold' = regs.threshold
    /\ init_at' = [init_at EXCEPT ![h] = (InitStep(h) + 1) % (InitSteps + 1)]
    /\ ext_isrs' = IF InitStep(h) = InitSteps
                   THEN [i \in DOMAIN ext_isrs |-> NULL]
                   ELSE ext_isrs
    /\ UNCHANGED <<past_end, pending, in_service, pc, irq, cb_run>>

\* plic_init on hart h, one register access at a time: nothing keeps the
\* other harts, or a trap on h, from running between two accesses.  The
\* call returns after access InitSteps.
plic_init(h) ==
    /\ pc[h] = "idle"
    /\ LET regs == InitAccess([enable |-> enable, priority |-> priority,
                               threshold |-> threshold], h, InitStep(h))
       IN  /\ enable' = regs.enable
           /\ priority' = regs.priority
           /\ threshold' = regs.threshold
    /\ init_at' = [init_at EXCEPT ![h] = (InitStep(h) + 1) % (InitSteps + 1)]
    /\ UNCHANGED <<ext_isrs, past_end, pending, in_service, pc, irq, cb_run>>

(***************************************************************************)
(* plic_enable_interrupt and plic_disable_interrupt as the hart executes   *)
(* them: *irq_reg |= mask and *irq_reg &= ~mask on a volatile word are a   *)
(* load of the word, then a store of the modified value.  Two contexts of  *)
(* one hart call them: the thread, and a service routine that preempts the *)
(* thread at any point and runs until it returns.                          *)
(***************************************************************************)
\* A load that does not read the register: *irq_reg = mask in place of
\* *irq_reg |= mask.
RegReadZero(h, i) == Zero32

\* The load of *irq_reg on hart h.
RegRead(h, i) ==
    LET r == _get_irq_reg(h, i)
    IN  enable[r[1]][r[2]]

\* Context c has the hart: the service routine whenever it is entered, the
\* thread while the service routine is not in the middle of its call.
Running(c) == c = "isr" \/ rmw["isr"].at # "loaded"

\* The contexts are contexts of one hart: h is the hart of the call the
\* other context has made or is making.
SameHart(c, h) ==
    \A o \in Contexts \ {c} : rmw[o].at # "out" => rmw[o].hart = h

\* Context c enters enable (op = "enable") or disable with id i on hart h
\* and loads the enable word.
RmwRead(c, h, op, i) ==
    /\ pc[h] = "idle"
    /\ rmw[c].at = "out"
    /\ Running(c)
    /\ SameHart(c, h)
    /\ rmw' = [rmw EXCEPT ![c] = [at |-> "loaded", op |-> op, hart |-> h,
                                  irq |-> i, reg |-> RegRead(h, i)]]
    /\ UNCHANGED <<enable, priority, threshold, ext_isrs, past_end,
                   pending, in_service, pc, irq, cb_run>>

\* Context c stores the word it loaded with its bit set or cleared, and
\* returns.
RmwWrite(c) ==
    /\ rmw[c].at = "loaded"
    /\ Running(c)
    /\ LET m    == rmw[c]
           r    == _get_irq_reg(m.hart, m.irq)
           seen == [enable EXCEPT ![r[1]][r[2]] = m.reg]
       IN  enable' = IF m.op = "enable"
                     THEN EnableIn(seen, m.hart, m.irq)
                     ELSE DisableIn(seen, m.hart, m.irq)
    /\ rmw' = [rmw EXCEPT ![c].at = "done"]
    /\ UNCHANGED <<priority, threshold, ext_isrs, past_end,
                   pending, in_service, pc, irq, cb_run>>

(***************************************************************************)
(* The controller: gateways, arbitration and the claim/complete register.  *)
(***************************************************************************)
\* The sources hart h can claim: pending, enabled for h, above h's threshold.
Claimable(h) ==
    {id \in Sources :
        /\ id \in pending
        /\ BitOf(enable[h][id \div 32], id % 32) = 1
        /\ priority[id] > threshold[h]}

\* What a read of hart h's claim register returns: the claimable source of
\* the highest priority (the lowest id among equals), 0 when there is none.
HwClaim(h) ==
    IF Claimable(h) = {} THEN 0
    ELSE CHOOSE id \in Claimable(h) :
            \A o \in Claimable(h) :
                \/ priority[id] > priority[o]
                \/ (priority[id] = priority[o] /\ id <= o)

\* The in-service markers after hart h has claimed id.
HwMark(h, id) ==
    IF id \in Sources THEN [in_service EXCEPT ![id] = h] ELSE in_service

\* The in-service markers after id is written to hart h's complete
\* register: the marker of id is retired if h holds it; any other id is
\* ignored.
HwComplete(h, id) ==
    IF id \in Sources /\ in_service[id] = h
    THEN [in_service EXCEPT ![id] = NoHart]
    ELSE in_service

\* An interrupt of source id occurs: its gateway forwards one request and
\* holds the next until the one in service is completed.
Raise(id) ==
    /\ id \notin pending
    /\ in_service[id] = NoHart
    /\ pending' = pending \cup {id}
    /\ UNCHANGED <<enable, priority, threshold, ext_isrs, past_end,
                   in_service, pc, irq, cb_run>>

\* Hart h takes the external-interrupt trap, which enters plic_isr_handler.
TrapEnter(h) ==
    /\ pc[h] = "idle"
    /\ Claimable(h) # {}
    /\ pc' = [pc EXCEPT ![h] = "entered"]
    /\ UNCHANGED <<enable, priority, threshold, ext_isrs, past_end,
                   pending, in_service, irq, cb_run>>

(***************************************************************************)
(* plic_isr_handler on hart h: claim, call, complete.                      *)
(***************************************************************************)
\* A claim read that does not take the source from the pending set.
ClaimLeavesPending(h, from, to) ==
    /\ pc[h] = from
    /\ LET id == HwClaim(_get_claim_complete_addr(h))
       IN  /\ irq' = [irq EXCEPT ![h] = id]
           /\ in_service' = HwMark(_get_claim_complete_addr(h), id)
    /\ cb_run' = [cb_run EXCEPT ![h] = NULL]
    /\ pc' = [pc EXCEPT ![h] = to]
    /\ UNCHANGED <<enable, priority, threshold, ext_isrs, past_end, pending>>

\* unsigned irq = plic_claim_interrupt();
plic_claim_interrupt(h, from, to) ==
    /\ pc[h] = from
    /\ LET id == HwClaim(_get_claim_complete_addr(h))
       IN  /\ irq' = [irq EXCEPT ![h] = id]
           /\ pending' = pending \ {id}
           /\ in_service' = HwMark(_get_claim_complete_addr(h), id)
    /\ cb_run' = [cb_run EXCEPT ![h] = NULL]
    /\ pc' = [pc EXCEPT ![h] = to]
    /\ UNCHANGED <<enable, priority, threshold, ext_isrs, past_end>>

\* What _ext_isrs[i] reads.  An index outside the table reads the memory
\* after it: what a store there left, or what its owner put there since.
TableRead(i) ==
    IF i \in DOMAIN ext_isrs THEN {ext_isrs[i]} ELSE {past_end, Junk}

\* _ext_isrs[irq](irq);  A registered callback runs and returns.  A call
\* through the null pointer of a slot never stored to is the jump to
\* address 0 the code counts on to "just crash hard": the hart faults.  A
\* call through a stray word that is not null is undefined: the hart
\* crashes, or runs stray code that returns.
CallCb(h, from, to) ==
    /\ pc[h] = from
    /\ \E f \in TableRead(irq[h]) :
          IF f \in Handlers
          THEN /\ cb_run' = [cb_run EXCEPT ![h] = f]
               /\ pc' = [pc EXCEPT ![h] = to]
          ELSE IF f = NULL
          THEN /\ pc' = [pc EXCEPT ![h] = "crashed"]
               /\ UNCHANGED cb_run
          ELSE \/ /\ pc' = [pc EXCEPT ![h] = "crashed"]
                  /\ UNCHANGED cb_run
               \/ /\ cb_run' = [cb_run EXCEPT ![h] = Junk]
                  /\ pc' = [pc EXCEPT ![h] = to]
    /\ UNCHANGED <<enable, priority, threshold, ext_isrs, past_end,
                   pending, in_service, irq>>

\* A complete that addresses the claim/complete register of hart 0
\* whatever hart runs it.
CompleteOnHartZero(h, id, from, to) ==
    /\ pc[h] = from
    /\ in_service' = HwComplete(_get_claim_complete_addr(0), id)
    /\ pc' = [pc EXCEPT ![h] = to]
    /\ cb_run' = [cb_run EXCEPT ![h] = NULL]
    /\ UNCHANGED <<enable, priority, threshold, ext_isrs, past_end,
                   pending, irq>>

\* plic_complete_interrupt(id);  cb_run records the call of the run in
\* progress only: it is cleared here, where the callback is behind.
plic_complete_interrupt(h, id, from, to) ==
    /\ pc[h] = from
    /\ in_service' = HwComplete(_get_claim_complete_addr(h), id)
    /\ pc' = [pc EXCEPT ![h] = to]
    /\ cb_run' = [cb_run EXCEPT ![h] = NULL]
    /\ UNCHANGED <<enable, priority, threshold, ext_isrs, past_end,
                   pending, irq>>

\* A handler that writes complete before it calls the callback.
HandlerCompletesFirst(h) ==
    \/ plic_claim_interrupt(h, "entered", "claimed")
    \/ plic_complete_interrupt(h, irq[h], "claimed", "completed")
    \/ CallCb(h, "completed", "idle")

\* A handler that returns after the callback without writing complete.
HandlerSkipsComplete(h) ==
    \/ plic_claim_interrupt(h, "entered", "claimed")
    \/ CallCb(h, "claimed", "idle")

plic_isr_handler(h) ==
    \/ plic_claim_interrupt(h, "entered", "claimed")
    \/ CallCb(h, "claimed", "called")
    \/ plic_complete_interrupt(h, irq[h], "called", "idle")

(***************************************************************************)
(* SpecCfg: API calls from any prior register state.                       *)
(***************************************************************************)
\* Register contents a prior owner may have left.
DirtyWords == {Zero32, AllOnes}

\* The ids enable and disable are called with: they make no check.
EnableArgs == (0..N) \cup {31, 33}

\* The ids set_priority and set_callback are called with.
IrqArgs == 0..(N + 1)

Prios == 0..MaxPrio

\* The static table: every slot null.
TableInit == [i \in 0..(N - 1) |-> NULL]

InitCfg ==
    /\ \E v \in DirtyWords :
          enable = [h \in Harts |-> [w \in EnableWords |-> v]]
    /\ \E p \in {0, MaxPrio} :
          /\ priority = [i \in 0..N |-> IF i = 0 THEN 0 ELSE p]
          /\ threshold = [h \in Harts |-> p]
    /\ ext_isrs = TableInit
    /\ past_end = Junk
    /\ pending = {}
    /\ in_service = [i \in Sources |-> NoHart]
    /\ pc = [h \in Harts |-> "idle"]
    /\ irq = [h \in Harts |-> 0]
    /\ cb_run = [h \in Harts |-> NULL]
    /\ NoHistory
    /\ prev = Snapshot
    /\ asked = [prio |-> [s \in Sources |-> priority[s]], thr |-> threshold]

NextCfg ==
    \E h \in Harts :
        \/ \E i \in EnableArgs :
              plic_enable_interrupt(h, i) /\ Note("enable", h, i, 0)
        \/ \E i \in EnableArgs :
              plic_disable_interrupt(h, i) /\ Note("disable", h, i, 0)
        \/ \E t \in Prios :
              plic_set_threshold(h, t) /\ Note("set_threshold", h, 0, t)
        \/ \E i \in IrqArgs, p \in Prios :
              plic_set_priority(h, i, p) /\ Note("set_priority", h, i, p)
        \/ \E i \in IrqArgs, cb \in Handlers :
              plic_set_isr_cb(h, i, cb) /\ Note("set_isr_cb", h, i, cb)
        \/ plic_init(h) /\ NoteInit(h)

SpecCfg == InitCfg /\ [][NextCfg]_vars

(***************************************************************************)
(* Spec: interrupt service.  Every source is enabled on every hart with    *)
(* priority 1 under threshold 0; the table starts empty and callbacks are  *)
(* registered while interrupts occur and are served.                       *)
(***************************************************************************)
\* The enable file with the bits of all sources set on every hart.
AllEnabled ==
    [h \in Harts |-> [w \in EnableWords |->
        {id % 32 : id \in {s \in Sources : s \div 32 = w}}]]

Init ==
    /\ enable = AllEnabled
    /\ priority = [i \in 0..N |-> IF i = 0 THEN 0 ELSE 1]
    /\ threshold = [h \in Harts |-> 0]
    /\ ext_isrs = TableInit
    /\ past_end = Junk
    /\ pending = {}
    /\ in_service = [i \in Sources |-> NoHart]
    /\ pc = [h \in Harts |-> "idle"]
    /\ irq = [h \in Harts |-> 0]
    /\ cb_run = [h \in Harts |-> NULL]
    /\ NoHistory
    /\ prev = Snapshot
    /\ asked = [prio |-> [s \in Sources |-> priority[s]], thr |-> threshold]

Next ==
    \/ \E id \in Sources : Raise(id) /\ Quiet
    \/ \E h \in Harts :
          \/ TrapEnter(h) /\ Quiet
          \/ plic_isr_handler(h) /\ Quiet
          \/ \E i \in Sources, cb \in Handlers :
                plic_set_isr_cb(h, i, cb) /\ Track("set_isr_cb", h, i, cb)

Spec == Init /\ [][Next]_vars

(***************************************************************************)
(* SpecArb: arbitration.  Every source is enabled on every hart and has a  *)
(* callback registered; priorities and thresholds are set while interrupts *)
(* occur and are served.                                                   *)
(***************************************************************************)
\* The callback the application registers for source id.
HandlerOf(id) == IF id % 2 = 1 THEN "cbA" ELSE "cbB"

RECURSIVE RegisterFrom(_, _)
\* The table memory after plic_set_isr_cb(id, HandlerOf(id)) for id = i..N.
RegisterFrom(mem, i) ==
    IF i > N THEN mem
    ELSE RegisterFrom(StoreCb(mem, i, HandlerOf(i)), i + 1)

InitArb ==
    /\ enable = AllEnabled
    /\ priority = [i \in 0..N |-> IF i = 0 THEN 0 ELSE 1]
    /\ threshold = [h \in Harts |-> 0]
    /\ LET mem == RegisterFrom([tbl |-> TableInit, past |-> Junk], 1)
       IN  ext_isrs = mem.tbl /\ past_end = mem.past
    /\ pending = {}
    /\ in_service = [i \in Sources |-> NoHart]
    /\ pc = [h \in Harts |-> "idle"]
    /\ irq = [h \in Harts |-> 0]
    /\ cb_run = [h \in Harts |-> NULL]
    /\ NoHistory
    /\ prev = Snapshot
    /\ asked = [prio |-> [s \in Sources |-> priority[s]], thr |-> threshold]

NextArb ==
    \/ \E id \in Sources : Raise(id) /\ Quiet
    \/ \E h \in Harts :
          \/ TrapEnter(h) /\ Quiet
          \/ plic_isr_handler(h) /\ Quiet
          \/ \E t \in Prios :
                plic_set_threshold(h, t) /\ Track("set_threshold", h, 0, t)
          \/ \E i \in Sources, p \in Prios :
                plic_set_priority(h, i, p) /\ Track("set_priority", h, i, p)

SpecArb == InitArb /\ [][NextArb]_vars

(***************************************************************************)
(* SpecHart: the per-hart registers.  From the state of SpecArb, every     *)
(* hart enables and disables sources and sets its threshold while          *)
(* interrupts occur and are served.                                        *)
(***************************************************************************)
\* The thresholds set: below and at the priority of the sources.
HartThresholds == {0, 1}

NextHart ==
    \/ \E id \in Sources : Raise(id) /\ Quiet
    \/ \E h \in Harts :
          \/ TrapEnter(h) /\ Quiet
          \/ plic_isr_handler(h) /\ Quiet
          \/ \E i \in Sources :
                plic_enable_interrupt(h, i) /\ Caller("enable", h, i, 0)
          \/ \E i \in Sources :
                plic_disable_interrupt(h, i) /\ Caller("disable", h, i, 0)
          \/ \E t \in HartThresholds :
                plic_set_threshold(h, t) /\ Caller("set_threshold", h, 0, t)

SpecHart == InitArb /\ [][NextHart]_vars

(***************************************************************************)
(* SpecRmw: one enable or disable call in the thread and one in a service  *)
(* routine of the same hart, from any prior register state.                *)
(***************************************************************************)
\* The ids the two calls take: the sources, and an id of the next word.
RmwArgs == Sources \cup {33}

RmwOps == {"enable", "disable"}

NextRmw ==
    \/ \E c \in Contexts, h \in Harts, op \in RmwOps, i \in RmwArgs :
          RmwRead(c, h, op, i) /\ Calm
    \/ RmwWrite("thread") /\ Calm
    \/ RmwWrite("isr") /\ Cut

SpecRmw == InitCfg /\ [][NextRmw]_vars

(***************************************************************************)
(* SpecInit: (re)initialisation of a running system.  From the state of    *)
(* SpecArb, a hart runs plic_init and enables sources again, and the harts *)
(* give priorities, while interrupts occur and are served on every hart.   *)
(***************************************************************************)
\* The priorities given: 0, and the priority the sources start with.
ArmPrios == {0, 1}

\* The harts that run plic_init and enable; the others serve interrupts
\* with the enable words they start with.
InitHarts == {0}

NextInit ==
    \/ \E id \in Sources : Raise(id) /\ Quiet
    \/ \E h \in Harts :
          \/ TrapEnter(h) /\ Quiet
          \/ plic_isr_handler(h) /\ Quiet
          \/ \E i \in Sources, p \in ArmPrios :
                plic_set_priority(h, i, p) /\ Arm("set_priority", h, i, p)
    \/ \E h \in InitHarts :
          \/ plic_init(h) /\ ArmInit(h)
          \/ \E i \in Sources :
                plic_enable_interrupt(h, i) /\ Arm("enable", h, i, 0)

SpecInit == InitArb /\ [][NextInit]_vars

(***************************************************************************)
(* Claims checked under SpecCfg.                                           *)
(***************************************************************************)
\* The enable bit of source id on hart h, in the enable file en.
EnableBit(en, h, id) == BitOf(en[h][id \div 32], id % 32)

\* C1: when plic_init() has returned on hart h, from whatever the registers
\* held before, every id in 1..N has its enable bit on hart h clear and
\* priority 0, and the threshold of hart h is 0.  When another hart made a
\* call between two accesses of the plic_init, the enable bits of h are
\* clear and its threshold is 0 all the same; the priorities, which all
\* harts write, are then those of the last writer.
C1_InitPost ==
    /\ last.op = "init" =>
           /\ \A id \in Sources :
                 /\ EnableBit(enable, last.hart, id) = 0
                 /\ priority[id] = 0
           /\ threshold[last.hart] = 0
    /\ (last.op = "init_cut" /\ init_at[last.hart] = 0) =>
           /\ \A id \in Sources : EnableBit(enable, last.hart, id) = 0
           /\ threshold[last.hart] = 0

\* plic_init has run on a hart whose sources were all enabled, with the
\* highest priority, under the highest threshold.
C1_Witness ==
    /\ last.op = "init"
    /\ \A id \in Sources :
          /\ EnableBit(prev.enable, last.hart, id) = 1
          /\ prev.priority[id] = MaxPrio
    /\ prev.threshold[last.hart] = MaxPrio

\* C7: set_priority and set_callback with id 0 or id > N end in the fatal
\* fault, and leave the priority array and the callback table (and the
\* memory after it) as they were.
C7_BadIdRejected ==
    (last.op \in {"set_priority", "set_isr_cb"}
        /\ (last.irq = 0 \/ last.irq > N)) =>
        /\ pc[last.hart] = "panic"
        /\ priority = prev.priority
        /\ ext_isrs = prev.ext_isrs
        /\ past_end = prev.past_end

\* set_priority(0, MaxPrio) was rejected after an accepted call had already
\* changed a register.
C7_Witness ==
    /\ last.op = "set_priority"
    /\ last.irq = 0
    /\ last.val = MaxPrio
    /\ pc[last.hart] = "panic"
    /\ ncalls = 2

\* The enable file after enable(id) / disable(id) on hart h, bit by bit:
\* the bit of id is v, every other bit of every word of every hart is as in
\* the file before.
OnlyBitSet(before, after, h, id, v) ==
    \A h2 \in Harts, w \in EnableWords, b \in Bits32 :
        BitOf(after[h2][w], b) =
            IF h2 = h /\ w = id \div 32 /\ b = id % 32
            THEN v
            ELSE BitOf(before[h2][w], b)

\* C8 (each call): enable(id) on hart h sets exactly bit id % 32 of hart
\* h's enable word id / 32, disable(id) clears exactly that bit; every
\* other bit and every other word is unchanged.
C8_OneCall ==
    /\ last.op = "enable" =>
           OnlyBitSet(prev.enable, enable, last.hart, last.irq, 1)
    /\ last.op = "disable" =>
           OnlyBitSet(prev.enable, enable, last.hart, last.irq, 0)

\* C8 (round trip): disable(id) right after enable(id) on the same hart
\* leaves every other bit of the 32-bit group as it was before the enable.
C8_RoundTrip ==
    (/\ last.op = "enable"
     /\ last'.op = "disable"
     /\ last'.hart = last.hart
     /\ last'.irq = last.irq
     /\ ncalls' = ncalls + 1) =>
        \A b \in Bits32 \ {last.irq % 32} :
            BitOf(enable'[last.hart][last.irq \div 32], b) =
                BitOf(prev.enable[last.hart][last.irq \div 32], b)

\* C8: enable and disable are bit-precise, one call at a time and as a
\* round trip.
C8_BitPrecise == []C8_OneCall /\ [][C8_RoundTrip]_vars

\* disable(33) has cleared bit 1 of word 1 on a hart whose word 1 had all
\* its bits set: 31 other bits of the group are there to be kept.
C8_Witness ==
    /\ last.op = "disable"
    /\ last.irq = 33
    /\ prev.enable[last.hart][1] = AllOnes
    /\ enable[last.hart][1] = AllOnes \ {1}

\* C12: after set_callback(id, cb) with id in 1..N, slot id of the callback
\* table holds cb, whatever was registered for id before (the last
\* registration wins), every other slot and the memory around the table
\* are as before the call, and no enable word, priority or threshold has
\* changed.
C12_LastRegistrationWins ==
    (last.op = "set_isr_cb" /\ last.irq \in Sources) =>
        /\ last.irq \in DOMAIN ext_isrs
        /\ ext_isrs = [prev.ext_isrs EXCEPT ![last.irq] = last.val]
        /\ past_end = prev.past_end
        /\ enable = prev.enable
        /\ priority = prev.priority
        /\ threshold = prev.threshold

\* C15: a plic_init() on hart h that ran right after another plic_init()
\* on h, neither with another call in between its accesses, has changed no
\* register and no slot of the callback table, so twice is the same as
\* once; and a plic_init() run after any other calls leaves every source
\* 1..N disabled on h with priority 0.
C15_InitIdempotent ==
    /\ (last.op = "init" /\ last.val = 1) => Snapshot = prev
    /\ last.op = "init" =>
           \A id \in Sources :
               /\ EnableBit(enable, last.hart, id) = 0
               /\ priority[id] = 0

\* plic_init has run twice in a row on a hart whose enable word was all
\* ones: the first run cleared the bits of the sources, the second changed
\* nothing.
C15_Witness ==
    /\ ncalls = 2
    /\ last.op = "init"
    /\ last.val = 1
    /\ prev = Snapshot
    /\ enable[last.hart][0] = AllOnes \ {id % 32 : id \in Sources}
    /\ enable[last.hart][1] = AllOnes

\* C19: plic_init() on hart h, run with no other call between its
\* accesses, leaves the callback table and the memory after it as they were, leaves the enable words and the threshold of
\* every other hart as they were, and on hart h changes no enable bit but
\* those of the sources 1..N; priority entry 0 is not written.
C19_InitFrame ==
    last.op = "init" =>
        /\ ext_isrs = prev.ext_isrs
        /\ past_end = prev.past_end
        /\ priority[0] = prev.priority[0]
        /\ \A h \in Harts \ {last.hart} :
              /\ enable[h] = prev.enable[h]
              /\ threshold[h] = prev.threshold[h]
        /\ \A w \in EnableWords, b \in Bits32 :
              (\A id \in Sources : id \div 32 # w \/ id % 32 # b) =>
                  BitOf(enable[last.hart][w], b) =
                      BitOf(prev.enable[last.hart][w], b)

\* plic_init has run on a hart after a callback was registered, while the
\* other hart had every source enabled under the highest threshold: the
\* callback is still registered, the other hart's registers are as before,
\* and the sources of the calling hart went from enabled to disabled.
C19_Witness ==
    /\ last.op = "init"
    /\ \E i \in DOMAIN ext_isrs : ext_isrs[i] \in Handlers
    /\ \A h \in Harts \ {last.hart} :
          /\ \A id \in Sources : EnableBit(enable, h, id) = 1
          /\ threshold[h] = MaxPrio
    /\ \A id \in Sources :
          /\ EnableBit(prev.enable, last.hart, id) = 1
          /\ EnableBit(enable, last.hart, id) = 0

(***************************************************************************)
(* Claims checked under Spec.                                              *)
(***************************************************************************)
\* The callback most recently stored for id by plic_set_isr_cb.
Registered(id) == IF id \in DOMAIN ext_isrs THEN ext_isrs[id] ELSE past_end

\* The in-service markers with that of id retired.
Retired(id) ==
    [s \in Sources |-> IF s = id THEN NoHart ELSE in_service[s]]

\* The steps of the handler on hart h, as the controller and the callbacks
\* see them: the claim register is read, a callback is entered, an
\* in-service marker held by h is retired.
ClaimRead(h) == pc[h] # "claimed" /\ pc'[h] = "claimed"

CallbackEntered(h) == cb_run'[h] # cb_run[h] /\ cb_run'[h] # NULL

CompleteWritten(h) ==
    \E id \in Sources : in_service[id] = h /\ in_service'[id] = NoHart

\* The sources hart h holds in service.
Held(h) == {id \in Sources : in_service[id] = h}

C2_Step ==
    \A h \in Harts :
        /\ (/\ pc[h] = "claimed"
            /\ pc'[h] # "claimed"
            /\ irq[h] \in Sources
            /\ Registered(irq[h]) \in Handlers) =>
               /\ pc'[h] = "called"
               /\ cb_run'[h] = Registered(irq[h])
               /\ irq'[h] = irq[h]
        /\ CallbackEntered(h) => pc[h] = "claimed"
        /\ (/\ pc[h] = "called"
            /\ pc'[h] # "called"
            /\ irq[h] \in Sources) =>
               /\ pc'[h] = "idle"
               /\ in_service' = Retired(irq[h])
        /\ CompleteWritten(h) => pc[h] = "called"

\* C2: a run of the handler whose claim returned id in 1..N, with callback
\* C registered for id, calls C (and nothing else) once with id, and then
\* completes id (and nothing else) once.
C2_DispatchOnce == [][C2_Step]_vars

C3_Step ==
    \A h \in Harts :
        /\ ClaimRead(h) => pc[h] = "entered" /\ Held(h) = {}
        /\ CallbackEntered(h) =>
               /\ pc[h] = "claimed"
               /\ cb_run[h] = NULL
               /\ irq[h] \in Sources => Held(h) = {irq[h]}
        /\ CompleteWritten(h) =>
               /\ pc[h] = "called"
               /\ cb_run[h] # NULL
               /\ Held(h) = {irq[h]}
               /\ pc'[h] = "idle"

\* C3: on every hart the handler reads the claim, then runs the callback,
\* then writes complete: a callback is entered only after the claim of its
\* run and before its complete, complete is written only after the callback
\* has returned, and the claim register is read only when the hart holds
\* no claim (so it never holds two).
C3_ClaimCallComplete ==
    /\ [][C3_Step]_vars
    /\ [](\A h \in Harts : Cardinality(Held(h)) <= 1)

\* Hart 1 holds the claim of a source whose callback has run and returned,
\* complete not yet written, while hart 0 holds the claim of another source
\* whose callback has not run yet.
C3_Witness ==
    /\ pc[1] = "called" /\ cb_run[1] \in Handlers /\ Held(1) = {irq[1]}
    /\ pc[0] = "claimed" /\ Held(0) = {irq[0]}

C4_Step ==
    /\ \A h \in Harts :
          (pc[h] = "called" /\ pc'[h] # "called") =>
              /\ irq[h] \in Sources => in_service[irq[h]] = h
              /\ in_service' = Retired(irq[h])
    /\ \A id \in Sources :
          (in_service[id] # NoHart /\ in_service'[id] = NoHart) =>
              LET h == in_service[id]
              IN  pc[h] = "called" /\ pc'[h] = "idle" /\ irq[h] = id

\* C4: every complete the handler writes on hart h names the id h claimed
\* last and still holds, and retires exactly that claim; no claim is retired
\* in any other way, so none is completed twice or by a hart that did not
\* claim it.
C4_CompleteMatchesClaim == [][C4_Step]_vars

\* Hart 1 has finished a run: it claimed a source, called, wrote complete
\* and returned, and the source is no longer in service.
C4_Witness ==
    /\ pc[1] = "idle"
    /\ irq[1] \in Sources
    /\ in_service[irq[1]] = NoHart

\* C5: when the claim read returns 0, the handler calls nothing and does
\* not fault: it never gets to the call, or to a crash, with irq = 0.
C5_ZeroClaimGraceful ==
    \A h \in Harts : pc[h] \in {"called", "crashed"} => irq[h] # 0

\* C6: every access to the callback table is inside it: no store of
\* set_callback lands on the memory after the table, and the handler's
\* lookup uses an index of the table.
C6_TableInBounds ==
    /\ past_end = Junk
    /\ \A h \in Harts :
          pc[h] \in {"called", "crashed"} => irq[h] \in DOMAIN ext_isrs

\* No callback was ever registered for id: its slot still holds what it
\* held before any plic_set_isr_cb.
NeverRegistered(id) == Registered(id) \notin Handlers

C11_Step ==
    \A h \in Harts :
        /\ (/\ pc[h] = "claimed"
            /\ pc'[h] # "claimed"
            /\ irq[h] \in Sources
            /\ NeverRegistered(irq[h])) =>
               /\ pc'[h] = "crashed"
               /\ cb_run'[h] \notin Handlers
        /\ (pc[h] = "crashed" /\ irq[h] \in Sources) =>
               /\ pc'[h] = "crashed"
               /\ in_service'[irq[h]] = h
               /\ enable' = enable
               /\ priority' = priority
               /\ threshold' = threshold

\* C11: a run of the handler whose claim returned an id in 1..N with no
\* callback ever registered ends in the fault state: it runs no registered
\* callback, never writes complete (the id stays in service on the hart),
\* and no enable bit, priority or threshold changes to mask the source.
C11_UnregisteredFaults == [][C11_Step]_vars

\* Hart h is between the claim of a source and its complete.
Serving(h) == pc[h] \in {"claimed", "called", "crashed"} /\ irq[h] \in Sources

C13_Step ==
    /\ \A h \in Harts :
          /\ (ClaimRead(h) /\ irq'[h] \in Sources) =>
                 /\ irq'[h] \in pending
                 /\ irq'[h] \notin pending'
                 /\ in_service[irq'[h]] = NoHart
                 /\ in_service'[irq'[h]] = h
          /\ (CallbackEntered(h) /\ irq[h] \in Sources) =>
                 /\ in_service[irq[h]] = h
                 /\ cb_run[h] = NULL
    /\ \A id \in Sources :
          (id \notin pending /\ id \in pending') =>
              /\ in_service[id] = NoHart
              /\ \A h \in Harts : ~(Serving(h) /\ irq[h] = id)

\* C13: with the harts running the handler concurrently, no two harts are
\* between claim and complete for the same id at any time; an occurrence
\* is claimed by one hart, which takes it from the pending set, its
\* callback is entered only on the hart that holds the claim and once per
\* claim, and the next occurrence of the id is accepted only when no hart
\* is serving it.
C13_ServicedOnce ==
    /\ [](\A h1, h2 \in Harts :
             (h1 # h2 /\ Serving(h1) /\ Serving(h2)) => irq[h1] # irq[h2])
    /\ [](\A h \in Harts : Serving(h) => in_service[irq[h]] = h)
    /\ [][C13_Step]_vars

\* Both harts took the trap for the one pending source: hart 0's claim
\* returned it, hart 1's claim returned 0.
C13_Witness ==
    /\ pc[0] = "claimed" /\ irq[0] \in Sources /\ in_service[irq[0]] = 0
    /\ pc[1] = "claimed" /\ irq[1] = 0
    /\ pending = {}

C16_Step ==
    /\ \A h \in Harts :
          /\ (pc[h] = "called" /\ pc'[h] = "idle" /\ irq[h] \in Sources) =>
                 in_service'[irq[h]] = NoHart
          /\ (/\ ClaimRead(h)
              /\ \E id \in Sources :
                    /\ id \in pending
                    /\ EnableBit(enable, h, id) = 1
                    /\ priority[id] > threshold[h]) =>
                 irq'[h] \in Sources
    /\ \A id \in Sources :
          (id \in pending /\ id \notin pending') =>
              \E h \in Harts : ClaimRead(h) /\ irq'[h] = id

\* C16: when a run of the handler for id returns, id is no longer in
\* service, and whenever every hart is outside the handler no source is in
\* service; an occurrence that is pending leaves the pending set only by
\* being claimed, and a claim on a hart where a pending source is enabled
\* and above the threshold returns a source: the next occurrence of id is
\* accepted and claimed again.
C16_CompleteReleases ==
    /\ []((\A h \in Harts : pc[h] = "idle") =>
              \A id \in Sources : in_service[id] = NoHart)
    /\ [][C16_Step]_vars

\* Hart 1 has served an occurrence of a source and returned; hart 0 has
\* claimed a later occurrence of the same source and run its callback.
C16_Witness ==
    /\ pc[1] = "idle" /\ irq[1] \in Sources
    /\ pc[0] = "called" /\ irq[0] = irq[1] /\ cb_run[0] \in Handlers
    /\ in_service[irq[0]] = 0

(***************************************************************************)
(* Claims checked under SpecArb.                                           *)
(***************************************************************************)
\* The sources pending and enabled on hart h whose priority, as last set
\* through set_priority, is above the threshold last set on h through
\* set_threshold.
ReadyAsAsked(h) ==
    {id \in Sources :
        /\ id \in pending
        /\ EnableBit(enable, h, id) = 1
        /\ asked.prio[id] > asked.thr[h]}

C9_Step ==
    \A h \in Harts :
        /\ ClaimRead(h) =>
               IF ReadyAsAsked(h) = {}
               THEN irq'[h] = 0
               ELSE /\ irq'[h] \in ReadyAsAsked(h)
                    /\ \A o \in ReadyAsAsked(h) :
                          asked.prio[irq'[h]] >= asked.prio[o]
        /\ (/\ pc[h] = "claimed"
            /\ pc'[h] # "claimed"
            /\ irq[h] \in Sources
            /\ Registered(irq[h]) \in Handlers) =>
               /\ pc'[h] = "called"
               /\ cb_run'[h] = Registered(irq[h])
        /\ (/\ pc[h] = "called"
            /\ pc'[h] # "called"
            /\ irq[h] \in Sources) =>
               /\ pc'[h] = "idle"
               /\ in_service' = Retired(irq[h])
               /\ irq[h] \notin pending'

\* C9: with several sources pending, enabled and above the threshold, all
\* with registered callbacks, each cycle on a hart claims the one of the
\* highest priority set through set_priority, calls its callback and
\* completes it, and a claim with none left returns 0.
C9_PriorityOrderService == [][C9_Step]_vars

C10_Step ==
    \A h \in Harts :
        ClaimRead(h) =>
            /\ irq'[h] \in Sources => priority[irq'[h]] > asked.thr[h]
            /\ (\E id \in Sources :
                    /\ id \in pending
                    /\ EnableBit(enable, h, id) = 1
                    /\ priority[id] > asked.thr[h]) => irq'[h] \in Sources

\* C10: a claim on hart h never returns an id whose priority is at or
\* below the threshold last set on h through set_threshold, and returns an
\* id whenever a pending source enabled on h has a priority above it.
C10_ThresholdFilters == [][C10_Step]_vars

\* Hart 1 traps on a source above its threshold 1, hart 0 claims that source
\* first, and hart 1's claim returns 0 although a source of priority 1 is
\* pending and enabled on hart 1: the threshold suppresses it.
C10_Witness ==
    /\ asked.thr[1] = 1
    /\ pc[1] = "claimed"
    /\ irq[1] = 0
    /\ \E id \in Sources :
          /\ id \in pending
          /\ EnableBit(enable, 1, id) = 1
          /\ priority[id] = 1

(***************************************************************************)
(* Claims checked under SpecHart.                                          *)
(***************************************************************************)
\* The registers the same call addresses on two different harts differ.
DistinctTargets ==
    \A h1, h2 \in Harts :
        h1 # h2 =>
            /\ _get_threshold_addr(h1) # _get_threshold_addr(h2)
            /\ _get_claim_complete_addr(h1) # _get_claim_complete_addr(h2)
            /\ \A i \in Sources : _get_irq_reg(h1, i) # _get_irq_reg(h2, i)

C14_Step ==
    \A h \in Harts :
        /\ (enable'[h] # enable[h] \/ threshold'[h] # threshold[h]) =>
               /\ last'.hart = h
               /\ last'.op \in {"enable", "disable", "set_threshold"}
               /\ pc' = pc
        /\ ClaimRead(h) =>
               /\ irq'[h] \in Sources =>
                      /\ EnableBit(enable, h, irq'[h]) = 1
                      /\ priority[irq'[h]] > threshold[h]
                      /\ in_service'[irq'[h]] = h
               /\ (\E id \in Sources :
                       /\ id \in pending
                       /\ EnableBit(enable, h, id) = 1
                       /\ priority[id] > threshold[h]) => irq'[h] \in Sources
               /\ \A id \in Sources \ {irq'[h]} :
                      in_service'[id] = in_service[id]
        /\ (pc[h] = "called" /\ pc'[h] = "idle") =>
               \A id \in Sources :
                   in_service'[id] # in_service[id] => in_service[id] = h

\* C14: enable, disable and set_threshold called on hart h change the
\* enable words and the threshold of no other hart; the handler's claim on
\* h is answered from h's own enable bits and threshold and marks the
\* source as held by h, its complete retires only a claim h holds; and the
\* same call made on two harts addresses two different registers.
C14_HartLocal == []DistinctTargets /\ [][C14_Step]_vars

\* Hart 1 has disabled a source and raised its threshold; hart 0 still has
\* that source enabled under threshold 0 and has claimed it, and the last
\* call was hart 1's.
C14_Witness ==
    /\ threshold[1] = 1 /\ threshold[0] = 0
    /\ pc[0] = "claimed" /\ irq[0] \in Sources
    /\ EnableBit(enable, 1, irq[0]) = 0
    /\ EnableBit(enable, 0, irq[0]) = 1
    /\ last.hart = 1


(***************************************************************************)
(* Claims checked under SpecRmw.                                           *)
(***************************************************************************)
\* The enable file en after the call of context c, made in one piece.
Applied(en, c) ==
    IF rmw[c].op = "enable"
    THEN EnableIn(en, rmw[c].hart, rmw[c].irq)
    ELSE DisableIn(en, rmw[c].hart, rmw[c].irq)

\* Both calls have returned.
BothDone == \A c \in Contexts : rmw[c].at = "done"

\* The two calls were for different bits of the same word.
SameWordOtherBit ==
    /\ rmw["thread"].irq \div 32 = rmw["isr"].irq \div 32
    /\ rmw["thread"].irq % 32 # rmw["isr"].irq % 32

\* C17: when the service routine's call runs before the thread's call has
\* loaded the word or after it has stored it, the final enable file is
\* that of the two calls made one after the other, so it reflects both;
\* when it runs between the thread's load and store and both are for the
\* same word, the final word is the thread's alone, computed from the word
\* as it was before the service routine's update.
C17_RmwRace ==
    BothDone =>
        /\ last.val = "out" =>
               enable = Applied(Applied(prev.enable, "isr"), "thread")
        /\ last.val = "done" =>
               enable = Applied(Applied(prev.enable, "thread"), "isr")
        /\ (last.val = "loaded" /\ SameWordOtherBit) =>
               enable = Applied(prev.enable, "thread")

\* The thread's call was preempted between its load and its store by a
\* call of the service routine for another bit of the same word, and the
\* final word does not have that bit as the service routine left it.
C17_Witness ==
    /\ BothDone
    /\ last.val = "loaded"
    /\ SameWordOtherBit
    /\ EnableBit(enable, rmw["isr"].hart, rmw["isr"].irq) #
           (IF rmw["isr"].op = "enable" THEN 1 ELSE 0)


(***************************************************************************)
(* Claims checked under SpecInit.                                          *)
(***************************************************************************)
\* The sources that, since plic_init last ran on hart h, enable has enabled
\* on h and that hold a nonzero priority given through set_priority.
Live(h) == {id \in armed[h].ids : asked.prio[id] > 0}

C18_Step ==
    \A h \in Harts :
        /\ (ClaimRead(h) /\ irq'[h] \in Sources) =>
               /\ priority[irq'[h]] > 0
               /\ armed[h].init => irq'[h] \in Live(h)
        /\ (armed[h].init /\ cb_run'[h] # cb_run[h]
                /\ cb_run'[h] \in Handlers) =>
               irq[h] \in armed[h].ids

\* C18: once plic_init() has run on hart h, a read of h's claim register
\* returns 0, whatever is pending, as long as no source has both been
\* enabled on h by enable and been given a nonzero priority by
\* set_priority since; a claim of the handler on h returns only such a
\* source and a callback runs on h only for one; and no claim on any
\* hart returns a source of priority 0, enabled or not.
C18_InitQuiescent ==
    /\ [](\A h \in Harts :
             (armed[h].init /\ Live(h) = {}) => HwClaim(h) = 0)
    /\ [][C18_Step]_vars

\* plic_init has run on hart 0 and every source is pending; one source has
\* been enabled on hart 0 since but has priority 0, another has been given
\* priority 1 but is not enabled on hart 0: a claim on hart 0 returns 0,
\* while a claim on hart 1, which never ran plic_init, returns a source.
C18_Witness ==
    /\ armed[0].init
    /\ ~armed[1].init
    /\ \E id \in Sources :
          /\ id \in pending
          /\ EnableBit(enable, 0, id) = 1
          /\ priority[id] = 0
    /\ \E id \in Sources :
          /\ id \in pending
          /\ EnableBit(enable, 0, id) = 0
          /\ priority[id] = 1
    /\ HwClaim(0) = 0
    /\ HwClaim(1) # 0


=============================================================================
